---- MODULE Spec2Model ----
(***************************************************************************)
(* Model of src/pages/AuthCallbackPage.tsx: the OAuth redirect-callback    *)
(* page.  One flow is one invocation of handleAuth by the effect.  Every   *)
(* action is one synchronous segment of the code, from the resumption of   *)
(* an await (or the effect / timer callback) up to the next await.         *)
(***************************************************************************)
EXTENDS Integers, Sequences, FiniteSets, TLC

\* ------------------------------------------------------------------------
\* Values
\* ------------------------------------------------------------------------

\* searchParams.get(name) returns null for a parameter that is not in the URL
Null == "<null>"

\* import.meta.env.X of a variable that is not configured; user?.id of no user
Undefined == "<undefined>"

\* JavaScript truthiness of a string | null | undefined
Truthy(v) == v # Null /\ v # Undefined /\ v # ""

\* String(v) as URLSearchParams applies it to the values of its init record
ToStr(v) == IF v = Undefined THEN "undefined" ELSE IF v = Null THEN "null" ELSE v

\* the four cases of the switch in handleAuth
SupportedPlatforms == {"twitter", "linkedin", "facebook", "instagram"}

\* values of the redirect parameters that the model enumerates
PlatformValues == SupportedPlatforms \cup {Null, "", "tiktok"}
CodeValues == {Null, "", "abc"}
ErrorValues == {Null, "", "access_denied"}

\* window.location.origin
Origins == {"https://socialsync.fun", "http://localhost:5173"}

\* build-time environment variables read by the adapters
EnvVars == {"VITE_TWITTER_CLIENT_ID",
            "VITE_LINKEDIN_CLIENT_ID", "VITE_LINKEDIN_CLIENT_SECRET",
            "VITE_FACEBOOK_APP_ID", "VITE_FACEBOOK_CLIENT_SECRET",
            "VITE_INSTAGRAM_CLIENT_ID", "VITE_INSTAGRAM_CLIENT_SECRET"}

\* number of environment variables that a configuration may leave unset
MaxMissingEnv == 1

\* the configurations: every variable set, or at most MaxMissingEnv unset
Configs == {e \in [EnvVars -> {"configured", Undefined}] :
              Cardinality({v \in EnvVars : e[v] = Undefined}) <= MaxMissingEnv}

\* values of expires_in in a token response, in seconds
ExpiresInValues == {0, 1, 3600, 172800}

\* delay of the failure timer, in milliseconds
FailureDelay == 3000

\* the clock advances in steps of TickMs up to MaxClock, and further while
\* a failure timer is pending
TickMs == 1000
MaxClock == 1000

\* number of times the effect runs in the life of the page
MaxFlows == 2

VARIABLES
  searchParams,   \* the redirect parameters [platform, code, error]
  origin,         \* window.location.origin
  opener,         \* window.opener is set
  env,            \* import.meta.env
  now,            \* Date.now()
  status,         \* useState('Verifying authentication...')
  error,          \* useState<string | null>(null)
  effectPending,  \* the effect is scheduled and has not run
  flows,          \* the invocations of handleAuth, in order
  statusCalls,    \* calls of setStatus, in order
  fetches,        \* requests sent to token endpoints
  upserts,        \* calls of supabase ... .upsert
  connects,       \* calls of socialMediaService.connectAccount
  effects,        \* calls of postMessage, window.close and navigate, in order
  store           \* the rows of social_media_accounts

vars == <<searchParams, origin, opener, env, now, status, error, effectPending,
          flows, statusCalls, fetches, upserts, connects, effects, store>>

\* ------------------------------------------------------------------------
\* Dates
\* ------------------------------------------------------------------------

MsPerDay == 86400000

\* civil date of a day number counted from 1970-01-01 (proleptic Gregorian)
CivilFromDays(z0) ==
  LET z   == z0 + 719468
      era == z \div 146097
      doe == z - era * 146097
      yoe == (doe - doe \div 1460 + doe \div 36524 - doe \div 146096) \div 365
      doy == doe - (365 * yoe + yoe \div 4 - yoe \div 100)
      mp  == (5 * doy + 2) \div 153
      d   == doy - (153 * mp + 2) \div 5 + 1
      m   == IF mp < 10 THEN mp + 3 ELSE mp - 9
      y   == yoe + era * 400 + (IF m <= 2 THEN 1 ELSE 0)
  IN [year |-> y, month |-> m, day |-> d]

\* day number of a civil date
DaysFromCivil(y0, m, d) ==
  LET y   == IF m <= 2 THEN y0 - 1 ELSE y0
      era == y \div 400
      yoe == y - era * 400
      doy == (153 * (IF m > 2 THEN m - 3 ELSE m + 9) + 2) \div 5 + d - 1
      doe == yoe * 365 + yoe \div 4 - yoe \div 100 + doy
  IN era * 146097 + doe - 719468

\* new Date(t).toISOString(): the fields of YYYY-MM-DDTHH:mm:ss.sssZ
ToISOString(t) ==
  LET days == t \div MsPerDay
      rem  == t % MsPerDay
      c    == CivilFromDays(days)
  IN [year |-> c.year, month |-> c.month, day |-> c.day,
      hour |-> rem \div 3600000,
      minute |-> (rem % 3600000) \div 60000,
      second |-> (rem % 60000) \div 1000,
      ms |-> rem % 1000]

\* Date.parse of such a string: milliseconds since the epoch
DateParse(iso) ==
  DaysFromCivil(iso.year, iso.month, iso.day) * MsPerDay
    + iso.hour * 3600000 + iso.minute * 60000 + iso.second * 1000 + iso.ms

\* a row of social_media_accounts written by an earlier page load
OldRow ==
  [platform |-> "twitter", access_token |-> "old-access-token",
   refresh_token |-> "old-refresh-token", expires_at |-> ToISOString(0),
   user_id |-> "user-1"]

\* the tables the page can find at its start
InitialStores == {{}, {OldRow}}

\* ------------------------------------------------------------------------
\* Initial state: the component has rendered, the effect has not run
\* ------------------------------------------------------------------------

Init ==
  /\ searchParams \in [platform : PlatformValues, code : CodeValues, error : ErrorValues]
  /\ origin \in Origins
  /\ opener \in BOOLEAN
  /\ env \in Configs
  /\ now = 0
  /\ status = "Verifying authentication..."
  /\ error = Null
  /\ effectPending = TRUE
  /\ flows = << >>
  /\ statusCalls = << >>
  /\ fetches = << >>
  /\ upserts = << >>
  /\ connects = << >>
  /\ effects = << >>
  /\ store \in InitialStores

\* ------------------------------------------------------------------------
\* Parameter checks and dispatch of handleAuth
\* ------------------------------------------------------------------------

\* ExtractError without the check of the error parameter
ExtractError_ErrorUnchecked(params) ==
  IF ~Truthy(params.platform) \/ ~Truthy(params.code) THEN "Missing required parameters"
  ELSE Null

\* ExtractError with a check of platform only
ExtractError_CodeUnchecked(params) ==
  IF Truthy(params.error) THEN "Authentication failed: " \o params.error
  ELSE IF ~Truthy(params.platform) THEN "Missing required parameters"
  ELSE Null

\* ExtractError of a handleAuth that checks nothing
ExtractError_NoChecks(params) == Null

\* the message of the Error thrown by lines 22-28, Null when none is thrown
ExtractError(params) ==
  IF Truthy(params.error) THEN "Authentication failed: " \o params.error
  ELSE IF ~Truthy(params.platform) \/ ~Truthy(params.code) THEN "Missing required parameters"
  ELSE Null

\* AdapterOf with a default case that falls into the first handler
AdapterOf_DefaultFallsThrough(platform) ==
  CASE platform = "linkedin"  -> "handleLinkedInAuth"
    [] platform = "facebook"  -> "handleFacebookAuth"
    [] platform = "instagram" -> "handleInstagramAuth"
    [] OTHER -> "handleTwitterAuth"

\* AdapterOf with the handlers of the first two cases exchanged
AdapterOf_Swapped(platform) ==
  CASE platform = "twitter"   -> "handleLinkedInAuth"
    [] platform = "linkedin"  -> "handleTwitterAuth"
    [] platform = "facebook"  -> "handleFacebookAuth"
    [] platform = "instagram" -> "handleInstagramAuth"
    [] OTHER -> Null

\* the handler that the switch of handleAuth calls for a platform, Null for
\* the default case
AdapterOf(platform) ==
  CASE platform = "twitter"   -> "handleTwitterAuth"
    [] platform = "linkedin"  -> "handleLinkedInAuth"
    [] platform = "facebook"  -> "handleFacebookAuth"
    [] platform = "instagram" -> "handleInstagramAuth"
    [] OTHER -> Null

Adapters == {"handleTwitterAuth", "handleLinkedInAuth", "handleFacebookAuth",
             "handleInstagramAuth"}

\* ------------------------------------------------------------------------
\* Token requests
\* ------------------------------------------------------------------------

\* the platform each adapter writes into its redirect_uri
RedirectUri(platform) == origin \o "/auth/callback?platform=" \o platform

\* the request each adapter hands to fetch; body is the list of the
\* name/value pairs of its URLSearchParams
TokenRequest(adapter, code) ==
  CASE adapter = "handleTwitterAuth" ->
         [url |-> "https://api.socialsync.fun/twitter/token", method |-> "POST",
          body |-> << <<"code", ToStr(code)>>,
                      <<"grant_type", "authorization_code">>,
                      <<"redirect_uri", RedirectUri("twitter")>>,
                      <<"code_verifier", "challenge">>,
                      <<"client_id", ToStr(env["VITE_TWITTER_CLIENT_ID"])>> >>]
    [] adapter = "handleLinkedInAuth" ->
         [url |-> "https://www.linkedin.com/oauth/v2/accessToken", method |-> "POST",
          body |-> << <<"grant_type", "authorization_code">>,
                      <<"code", ToStr(code)>>,
                      <<"client_id", ToStr(env["VITE_LINKEDIN_CLIENT_ID"])>>,
                      <<"client_secret", ToStr(env["VITE_LINKEDIN_CLIENT_SECRET"])>>,
                      <<"redirect_uri", RedirectUri("linkedin")>> >>]
    [] adapter = "handleFacebookAuth" ->
         [url |-> "https://graph.facebook.com/v18.0/oauth/access_token", method |-> "GET",
          body |-> << <<"client_id", ToStr(env["VITE_FACEBOOK_APP_ID"])>>,
                      <<"redirect_uri", RedirectUri("facebook")>>,
                      <<"client_secret", ToStr(env["VITE_FACEBOOK_CLIENT_SECRET"])>>,
                      <<"code", ToStr(code)>> >>]
    [] adapter = "handleInstagramAuth" ->
         [url |-> "https://api.instagram.com/oauth/access_token", method |-> "POST",
          body |-> << <<"client_id", ToStr(env["VITE_INSTAGRAM_CLIENT_ID"])>>,
                      <<"client_secret", ToStr(env["VITE_INSTAGRAM_CLIENT_SECRET"])>>,
                      <<"grant_type", "authorization_code">>,
                      <<"redirect_uri", RedirectUri("instagram")>>,
                      <<"code", ToStr(code)>> >>]

\* the environment variables each adapter reads for its request
RequiredEnv(adapter) ==
  CASE adapter = "handleTwitterAuth"   -> {"VITE_TWITTER_CLIENT_ID"}
    [] adapter = "handleLinkedInAuth"  -> {"VITE_LINKEDIN_CLIENT_ID", "VITE_LINKEDIN_CLIENT_SECRET"}
    [] adapter = "handleFacebookAuth"  -> {"VITE_FACEBOOK_APP_ID", "VITE_FACEBOOK_CLIENT_SECRET"}
    [] adapter = "handleInstagramAuth" -> {"VITE_INSTAGRAM_CLIENT_ID", "VITE_INSTAGRAM_CLIENT_SECRET"}

\* fetch rejects with a TypeError, and sends nothing, when the init has a
\* body and the method is GET or HEAD (every request here has a body)
FetchRejectsInit(req) == req.method \in {"GET", "HEAD"}

\* ResponseNotOk of an adapter that does not look at tokenResponse.ok
ResponseNotOk_Unchecked(outcome) == FALSE

\* if (!tokenResponse.ok) of a settled response
ResponseNotOk(outcome) == outcome # "ok"

\* the catch of handleTwitterAuth rethrows error.message || its own text;
\* the other adapters have no catch
AdapterThrows(adapter, msg) ==
  IF adapter = "handleTwitterAuth"
    THEN (IF msg # "" THEN msg ELSE "Failed to authenticate with Twitter")
    ELSE msg

\* ConnectArg with the argument of the first adapter copied into the second
ConnectArg_Copied(adapter) ==
  CASE adapter = "handleTwitterAuth"   -> "twitter"
    [] adapter = "handleLinkedInAuth"  -> "twitter"
    [] adapter = "handleFacebookAuth"  -> "facebook"
    [] adapter = "handleInstagramAuth" -> "instagram"

\* the argument each adapter passes to connectAccount
ConnectArg(adapter) ==
  CASE adapter = "handleTwitterAuth"   -> "twitter"
    [] adapter = "handleLinkedInAuth"  -> "linkedin"
    [] adapter = "handleFacebookAuth"  -> "facebook"
    [] adapter = "handleInstagramAuth" -> "instagram"

\* ------------------------------------------------------------------------
\* The two ends of handleAuth
\* ------------------------------------------------------------------------

Effect(f, op, type, key, data, target) ==
  [flow |-> f, op |-> op, type |-> type, key |-> key, data |-> data,
   target |-> target, at |-> now]

\* Propagate that closes the window before it posts, to any origin
Propagate_CloseFirst(f, type, key, data) ==
  IF opener
    THEN << Effect(f, "close", "", "", "", ""),
            Effect(f, "postMessage", type, key, data, "*") >>
    ELSE << Effect(f, "navigate", "", "", "", "/") >>

\* if (window.opener) { postMessage(..., origin); close() } else navigate('/')
Propagate(f, type, key, data) ==
  IF opener
    THEN << Effect(f, "postMessage", type, key, data, origin),
            Effect(f, "close", "", "", "", "") >>
    ELSE << Effect(f, "navigate", "", "", "", "/") >>

\* TimerDue of a timer set without a delay
TimerDue_NoDelay(t) == t

\* the time at which the timer of setTimeout(..., 3000) set at t is due
TimerDue(t) == t + FailureDelay

StatusCall(f, value) == [flow |-> f, value |-> value, at |-> now]

\* Catch that records the failure and sets no timer
Catch_Unscheduled(fs, f, msg, calls) ==
  /\ error' = msg
  /\ status' = "Authentication failed"
  /\ statusCalls' = Append(calls, StatusCall(f, "Authentication failed"))
  /\ flows' = [fs EXCEPT ![f].pc = "caught", ![f].message = msg, ![f].failedAt = now]
  /\ UNCHANGED effects

\* the catch block of handleAuth for flow f of fs, thrown message msg;
\* calls is the list of setStatus calls made so far
Catch(fs, f, msg, calls) ==
  /\ error' = msg
  /\ status' = "Authentication failed"
  /\ statusCalls' = Append(calls, StatusCall(f, "Authentication failed"))
  /\ flows' = [fs EXCEPT ![f].pc = "failed", ![f].message = msg,
                         ![f].failedAt = now, ![f].due = TimerDue(now)]
  /\ UNCHANGED effects

\* the statements of handleAuth after the switch
Complete(fs, f) ==
  /\ status' = "Successfully connected!"
  /\ statusCalls' = Append(statusCalls, StatusCall(f, "Successfully connected!"))
  /\ flows' = [fs EXCEPT ![f].pc = "succeeded"]
  /\ effects' = effects \o Propagate(f, "SOCIAL_AUTH_SUCCESS", "platform", fs[f].platform)
  /\ UNCHANGED error

\* ------------------------------------------------------------------------
\* Actions
\* ------------------------------------------------------------------------

\* the locals of an invocation of handleAuth and of the adapter it calls,
\* with the history of the invocation: the adapter called, the response
\* seen ("none", "ok", "notOk"), what has returned so far, the result of
\* the upsert ("none", "ok", "error")
NewFlow(params) ==
  [pc |-> "start", platform |-> params.platform, code |-> params.code,
   error |-> params.error, adapter |-> Null, startedAt |-> now,
   message |-> Null, failedAt |-> 0, due |-> 0,
   response |-> "none", exchanged |-> FALSE,
   expiresIn |-> -1, builtAt |-> 0, expiresAt |-> ToISOString(0),
   userResolved |-> FALSE, userId |-> Undefined,
   upsertResult |-> "none", persisted |-> FALSE]

\* the effect runs handleAuth up to its first await
useEffect ==
  /\ effectPending
  /\ effectPending' = FALSE
  /\ LET platform == searchParams.platform
         f        == Len(flows) + 1
         fs       == Append(flows, NewFlow(searchParams))
         thrown   == ExtractError(searchParams)
         adapter  == AdapterOf(platform)
     IN IF thrown # Null
          THEN /\ Catch(fs, f, thrown, statusCalls)
               /\ UNCHANGED fetches
        ELSE LET connecting == StatusCall(f, "Connecting " \o platform \o " account...")
             IN IF adapter = Null
                  THEN /\ Catch(fs, f, "Unsupported platform", Append(statusCalls, connecting))
                       /\ UNCHANGED fetches
                ELSE LET req == TokenRequest(adapter, searchParams.code)
                         fs2 == [fs EXCEPT ![f].adapter = adapter]
                     IN IF FetchRejectsInit(req)
                          THEN /\ Catch(fs2, f,
                                        AdapterThrows(adapter, "Request with GET/HEAD method cannot have body"),
                                        Append(statusCalls, connecting))
                               /\ UNCHANGED fetches
                          ELSE /\ fetches' = Append(fetches, [flow |-> f, at |-> now, req |-> req])
                               /\ flows' = [fs2 EXCEPT ![f].pc = "awaitFetch"]
                               /\ status' = connecting.value
                               /\ statusCalls' = Append(statusCalls, connecting)
                               /\ UNCHANGED <<error, effects>>
  /\ UNCHANGED <<searchParams, origin, opener, env, now, upserts, connects, store>>

\* the failure timer of flow f fires
TimerFires(f) ==
  /\ f \in DOMAIN flows
  /\ flows[f].pc = "failed"
  /\ now >= flows[f].due
  /\ flows' = [flows EXCEPT ![f].pc = "failedDone"]
  /\ effects' = effects \o Propagate(f, "SOCIAL_AUTH_ERROR", "error", flows[f].message)
  /\ UNCHANGED <<searchParams, origin, opener, env, now, status, error, effectPending,
                 statusCalls, fetches, upserts, connects, store>>

\* time passes
Tick ==
  /\ \/ now < MaxClock
     \/ \E f \in DOMAIN flows : flows[f].pc = "failed" /\ now < flows[f].due
  /\ now' = now + TickMs
  /\ UNCHANGED <<searchParams, origin, opener, env, status, error, effectPending,
                 flows, statusCalls, fetches, upserts, connects, effects, store>>

\* error texts of the failures the environment can produce
NetworkErrorText == "Failed to fetch"
JsonSyntaxErrorText == "Unexpected token < in JSON at position 0"
NullReadErrorText == "Cannot read properties of null"
InvalidDateText == "Invalid time value"

\* the Error each adapter throws for a response that is not ok
NotOkText(adapter) ==
  CASE adapter = "handleLinkedInAuth"  -> "Failed to get LinkedIn access token"
    [] adapter = "handleFacebookAuth"  -> "Failed to get Facebook access token"
    [] adapter = "handleInstagramAuth" -> "Failed to get Instagram access token"

\* the promise of fetch settles: await fetch(...) resumes
FetchSettles(f) ==
  /\ flows[f].pc = "awaitFetch"
  /\ LET adapter == flows[f].adapter
     IN \E outcome \in {"reject", "ok", "notOk"} :
          IF outcome = "reject"
            THEN Catch(flows, f, AdapterThrows(adapter, NetworkErrorText), statusCalls)
          ELSE LET fs == [flows EXCEPT ![f].response = outcome]
               IN IF ~ResponseNotOk(outcome)
                    THEN /\ flows' = [fs EXCEPT ![f].pc = "awaitJson"]
                         /\ UNCHANGED <<status, error, statusCalls, effects>>
                  ELSE IF adapter = "handleTwitterAuth"
                    THEN /\ flows' = [fs EXCEPT ![f].pc = "awaitErrorJson"]
                         /\ UNCHANGED <<status, error, statusCalls, effects>>
                  ELSE Catch(fs, f, NotOkText(adapter), statusCalls)
  /\ UNCHANGED <<searchParams, origin, opener, env, now, effectPending,
                 fetches, upserts, connects, store>>

\* bodies of an error response of the twitter proxy: not JSON, the JSON
\* null, or an object whose error_description is as given
ErrorBodies == {"malformed", "null"}
ErrorDescriptions == {Undefined, "", "Value passed for the authorization code was invalid."}

\* the message of the Error thrown by lines 99-101 for an error body
TwitterNotOkText(body) ==
  IF body = "malformed" THEN JsonSyntaxErrorText
  ELSE IF body = "null" THEN NullReadErrorText
  ELSE IF Truthy(body) THEN body
  ELSE "Failed to get Twitter access token"

\* await tokenResponse.json() of a response that is not ok resumes (twitter)
ErrorJsonSettles(f) ==
  /\ flows[f].pc = "awaitErrorJson"
  /\ \E body \in ErrorBodies \cup ErrorDescriptions :
       Catch(flows, f, AdapterThrows("handleTwitterAuth", TwitterNotOkText(body)), statusCalls)
  /\ UNCHANGED <<searchParams, origin, opener, env, now, effectPending,
                 fetches, upserts, connects, store>>

\* ExpiresInMs without the conversion of seconds to milliseconds
ExpiresInMs_Seconds(expiresIn) == expiresIn

\* tokens.expires_in * 1000, added to Date.now()
ExpiresInMs(expiresIn) == expiresIn * 1000

\* PersistsTokens of a page whose adapters all store their tokens
PersistsTokens_All(adapter) == TRUE

\* the adapter goes on to store the tokens (lines 106-119); the others call
\* connectAccount right after json()
PersistsTokens(adapter) == adapter = "handleTwitterAuth"

\* bodies of an ok response: not JSON, the JSON null, or a token object
\* <<"tokens">> without expires_in or <<"tokens", n>> with expires_in = n
OkBodies == {<<"malformed">>, <<"null">>, <<"tokens">>}
              \cup {<<"tokens", n>> : n \in ExpiresInValues}

\* await tokenResponse.json() of an ok response resumes
JsonSettles(f) ==
  /\ flows[f].pc = "awaitJson"
  /\ LET adapter == flows[f].adapter
         fs == [flows EXCEPT ![f].exchanged = TRUE]
     IN \E body \in OkBodies :
          IF body[1] = "malformed"
            THEN /\ Catch(flows, f, AdapterThrows(adapter, JsonSyntaxErrorText), statusCalls)
                 /\ UNCHANGED connects
          ELSE IF ~PersistsTokens(adapter)
            THEN /\ connects' = Append(connects, [flow |-> f, platform |-> ConnectArg(adapter)])
                 /\ flows' = [fs EXCEPT ![f].pc = "awaitConnect"]
                 /\ UNCHANGED <<status, error, statusCalls, effects>>
          ELSE IF body[1] = "null"
            THEN /\ Catch(fs, f, AdapterThrows(adapter, NullReadErrorText), statusCalls)
                 /\ UNCHANGED connects
          ELSE IF Len(body) = 1
            THEN /\ Catch(fs, f, AdapterThrows(adapter, InvalidDateText), statusCalls)
                 /\ UNCHANGED connects
          ELSE /\ flows' = [fs EXCEPT ![f].pc = "awaitGetUser",
                                      ![f].expiresIn = body[2],
                                      ![f].builtAt = now,
                                      ![f].expiresAt = ToISOString(now + ExpiresInMs(body[2]))]
               /\ UNCHANGED <<status, error, statusCalls, effects, connects>>
  /\ UNCHANGED <<searchParams, origin, opener, env, now, effectPending,
                 fetches, upserts, store>>

\* the users supabase.auth.getUser() can return (Null: nobody is signed in)
Users == {Null, "user-1"}

\* (await supabase.auth.getUser()).data.user?.id
UserIdOf(user) == IF user = Null THEN Undefined ELSE user

\* await supabase.auth.getUser() resumes; the record is complete and
\* upsert is called with it
GetUserSettles(f) ==
  /\ flows[f].pc = "awaitGetUser"
  /\ \E user \in Users :
       /\ upserts' = Append(upserts,
            [flow |-> f, at |-> now,
             record |-> [platform |-> "twitter",
                         access_token |-> "access-token",
                         refresh_token |-> "refresh-token",
                         expires_at |-> flows[f].expiresAt,
                         user_id |-> UserIdOf(user)]])
       /\ flows' = [flows EXCEPT ![f].pc = "awaitUpsert", ![f].userResolved = TRUE,
                                  ![f].userId = UserIdOf(user)]
  /\ UNCHANGED <<searchParams, origin, opener, env, now, status, error, effectPending,
                 statusCalls, fetches, connects, effects, store>>

\* the table after an upsert of row: the row of the same user and platform
\* is replaced
Upserted(rows, row) ==
  {r \in rows : ~(r.user_id = row.user_id /\ r.platform = row.platform)} \cup {row}

\* the values of error in the result of upsert (Null: the row is written)
StorageErrors == {Null, "storage error"}

\* StorageFailed of an adapter that does not look at the result of upsert
StorageFailed_Ignored(storageError) == FALSE

\* StorageFailed with the test inverted
StorageFailed_Inverted(storageError) == storageError = Null

\* if (storageError)
StorageFailed(storageError) == storageError # Null

\* await ... .upsert(...) resumes with { error: storageError }
UpsertSettles(f) ==
  /\ flows[f].pc = "awaitUpsert"
  /\ LET call == CHOOSE u \in {upserts[i] : i \in DOMAIN upserts} : u.flow = f
     IN \E storageError \in StorageErrors :
          LET fs == [flows EXCEPT ![f].upsertResult = IF storageError = Null THEN "ok" ELSE "error",
                                  ![f].persisted = (storageError = Null)]
          IN /\ store' = IF storageError = Null THEN Upserted(store, call.record) ELSE store
             /\ IF StorageFailed(storageError)
                  THEN /\ Catch(fs, f,
                                AdapterThrows("handleTwitterAuth", "Failed to store Twitter credentials"),
                                statusCalls)
                       /\ UNCHANGED connects
                  ELSE /\ connects' = Append(connects,
                            [flow |-> f, platform |-> ConnectArg("handleTwitterAuth")])
                       /\ flows' = [fs EXCEPT ![f].pc = "awaitConnect"]
                       /\ UNCHANGED <<status, error, statusCalls, effects>>
  /\ UNCHANGED <<searchParams, origin, opener, env, now, effectPending,
                 fetches, upserts>>

\* messages of the Error a rejected connectAccount carries
ConnectErrors == {"", "Failed to connect account"}

\* await socialMediaService.connectAccount(platform) resumes; on success
\* the adapter returns and handleAuth runs to its end
ConnectSettles(f) ==
  /\ flows[f].pc = "awaitConnect"
  /\ \/ Complete(flows, f)
     \/ \E msg \in ConnectErrors :
          Catch(flows, f, AdapterThrows(flows[f].adapter, msg), statusCalls)
  /\ UNCHANGED <<searchParams, origin, opener, env, now, effectPending,
                 fetches, upserts, connects, store>>

Next ==
  \/ useEffect
  \/ \E f \in DOMAIN flows : FetchSettles(f)
  \/ \E f \in DOMAIN flows : ErrorJsonSettles(f)
  \/ \E f \in DOMAIN flows : JsonSettles(f)
  \/ \E f \in DOMAIN flows : GetUserSettles(f)
  \/ \E f \in DOMAIN flows : UpsertSettles(f)
  \/ \E f \in DOMAIN flows : ConnectSettles(f)
  \/ \E f \in DOMAIN flows : TimerFires(f)
  \/ Tick

Spec == Init /\ [][Next]_vars

\* the page stays open: time passes and a timer that is due fires
SpecFair ==
  /\ Init
  /\ [][Next]_vars
  /\ WF_vars(Tick)
  /\ \A f \in 1..MaxFlows : WF_vars(TimerFires(f))

\* ------------------------------------------------------------------------
\* A browser in which postMessage, close and navigate can raise
\* ------------------------------------------------------------------------

\* the message of the exception a call of op raises
RaisedText(op) == "Failed to execute '" \o op \o "'"

\* connectAccount has resolved and the adapter returned; handleAuth sets
\* the success status and one of the calls of lines 53-58 raises inside the
\* try block: the calls before it have happened and the catch block runs
CompleteRaises(f) ==
  /\ flows[f].pc = "awaitConnect"
  /\ LET steps == Propagate(f, "SOCIAL_AUTH_SUCCESS", "platform", flows[f].platform)
     IN \E k \in DOMAIN steps :
          LET msg == RaisedText(steps[k].op)
          IN /\ effects' = effects \o SubSeq(steps, 1, k - 1)
             /\ error' = msg
             /\ status' = "Authentication failed"
             /\ statusCalls' = statusCalls \o << StatusCall(f, "Successfully connected!"),
                                                 StatusCall(f, "Authentication failed") >>
             /\ flows' = [flows EXCEPT ![f].pc = "failed", ![f].message = msg,
                                       ![f].failedAt = now, ![f].due = TimerDue(now)]
  /\ UNCHANGED <<searchParams, origin, opener, env, now, effectPending,
                 fetches, upserts, connects, store>>

\* the failure timer of flow f fires and one of the calls of lines 66-71
\* raises: the calls before it have happened, nothing catches the exception
TimerRaises(f) ==
  /\ flows[f].pc = "failed"
  /\ now >= flows[f].due
  /\ LET steps == Propagate(f, "SOCIAL_AUTH_ERROR", "error", flows[f].message)
     IN \E k \in DOMAIN steps :
          effects' = effects \o SubSeq(steps, 1, k - 1)
  /\ flows' = [flows EXCEPT ![f].pc = "failedDone"]
  /\ UNCHANGED <<searchParams, origin, opener, env, now, status, error, effectPending,
                 statusCalls, fetches, upserts, connects, store>>

NextRaise ==
  \/ Next
  \/ \E f \in DOMAIN flows : CompleteRaises(f)
  \/ \E f \in DOMAIN flows : TimerRaises(f)

SpecRaise == Init /\ [][NextRaise]_vars

\* ------------------------------------------------------------------------
\* A page whose search parameters change while it is mounted
\* ------------------------------------------------------------------------

\* the redirect parameters the location takes in the life of the page
CallbackUrls ==
  { [platform |-> "twitter",  code |-> "abc", error |-> Null],
    [platform |-> "linkedin", code |-> "abc", error |-> Null],
    [platform |-> Null,       code |-> Null,  error |-> "access_denied"] }

\* the window has been closed or the router has left the callback route
TornDown ==
  \E i \in DOMAIN effects : effects[i].op \in {"close", "navigate"}

\* the location changes: useSearchParams returns a new searchParams and the
\* dependency list [searchParams, navigate] makes the effect run again; the
\* effect has no cleanup function, so nothing of an earlier run is undone
Retrigger ==
  /\ ~TornDown
  /\ ~effectPending
  /\ Len(flows) < MaxFlows
  /\ \E params \in CallbackUrls \ {searchParams} : searchParams' = params
  /\ effectPending' = TRUE
  /\ UNCHANGED <<origin, opener, env, now, status, error, flows, statusCalls,
                 fetches, upserts, connects, effects, store>>

\* a configured deployment opened on one of the callback URLs
InitRetrigger ==
  /\ Init
  /\ searchParams \in CallbackUrls
  /\ origin = "https://socialsync.fun"
  /\ \A v \in EnvVars : env[v] = "configured"
  /\ store = {}

\* nothing of the page runs once it is torn down
NextRetrigger ==
  \/ ~TornDown /\ useEffect
  \/ \E f \in DOMAIN flows : ~TornDown /\ FetchSettles(f)
  \/ \E f \in DOMAIN flows : ~TornDown /\ ErrorJsonSettles(f)
  \/ \E f \in DOMAIN flows : ~TornDown /\ JsonSettles(f)
  \/ \E f \in DOMAIN flows : ~TornDown /\ GetUserSettles(f)
  \/ \E f \in DOMAIN flows : ~TornDown /\ UpsertSettles(f)
  \/ \E f \in DOMAIN flows : ~TornDown /\ ConnectSettles(f)
  \/ \E f \in DOMAIN flows : ~TornDown /\ TimerFires(f)
  \/ ~TornDown /\ Tick
  \/ Retrigger

SpecRetrigger == InitRetrigger /\ [][NextRetrigger]_vars

\* ------------------------------------------------------------------------
\* Properties
\* ------------------------------------------------------------------------

Failed(f) == flows[f].pc \in {"failed", "failedDone"}

FetchesOf(f)  == {i \in DOMAIN fetches : fetches[i].flow = f}
UpsertsOf(f)  == {i \in DOMAIN upserts : upserts[i].flow = f}
ConnectsOf(f) == {i \in DOMAIN connects : connects[i].flow = f}
EffectIs(e, f) == e.flow = f
EffectsOf(f)  == SelectSeq(effects, LAMBDA e : EffectIs(e, f))
StatusValuesOf(f) == {statusCalls[i].value : i \in {j \in DOMAIN statusCalls : statusCalls[j].flow = f}}

\* flow f has called no adapter and made no request, upsert or connectAccount
NoExchange(f) ==
  /\ flows[f].adapter = Null
  /\ FetchesOf(f) = {}
  /\ UpsertsOf(f) = {}
  /\ ConnectsOf(f) = {}

\* C1: a flow whose parameters carry a non-empty error is Failed, with the
\* provider's text in its message, whatever platform and code are, and has
\* invoked no adapter, sent no token request, and called neither upsert nor
\* connectAccount.
C1_ErrorParameterFails ==
  \A f \in DOMAIN flows :
    Truthy(flows[f].error) =>
      /\ Failed(f)
      /\ flows[f].message = "Authentication failed: " \o flows[f].error
      /\ NoExchange(f)

\* a flow with an error, a supported platform and a code has failed and
\* its failure has been propagated
C1_Witness ==
  \E f \in DOMAIN flows :
    /\ Truthy(flows[f].error)
    /\ flows[f].platform \in SupportedPlatforms
    /\ Truthy(flows[f].code)
    /\ flows[f].pc = "failedDone"

\* C2: a flow with no error parameter and with platform or code absent is
\* Failed with 'Missing required parameters', has invoked no adapter and
\* made no call, and has never set the status to 'Connecting ...'.
C2_MissingParametersFail ==
  \A f \in DOMAIN flows :
    (flows[f].error = Null /\ (flows[f].platform = Null \/ flows[f].code = Null)) =>
      /\ Failed(f)
      /\ flows[f].message = "Missing required parameters"
      /\ NoExchange(f)
      /\ StatusValuesOf(f) = {"Authentication failed"}

\* a flow for twitter without a code has failed and has been propagated
C2_Witness ==
  \E f \in DOMAIN flows :
    /\ flows[f].error = Null
    /\ flows[f].platform = "twitter"
    /\ flows[f].code = Null
    /\ flows[f].pc = "failedDone"

\* C3 as stated: a flow with a code parameter, no error parameter and a
\* platform value outside the four supported ones is Failed with
\* 'Unsupported platform' and has made no call.
C3_AsStated ==
  \A f \in DOMAIN flows :
    (/\ flows[f].code # Null
     /\ flows[f].error = Null
     /\ flows[f].platform # Null
     /\ flows[f].platform \notin SupportedPlatforms) =>
      /\ Failed(f)
      /\ flows[f].message = "Unsupported platform"
      /\ NoExchange(f)

\* C3 amended: a flow with a non-empty code, no error parameter and a
\* non-empty platform value outside the four supported ones is Failed with
\* 'Unsupported platform' and has made no call.
C3_UnsupportedPlatformFails ==
  \A f \in DOMAIN flows :
    (/\ Truthy(flows[f].code)
     /\ flows[f].error = Null
     /\ Truthy(flows[f].platform)
     /\ flows[f].platform \notin SupportedPlatforms) =>
      /\ Failed(f)
      /\ flows[f].message = "Unsupported platform"
      /\ NoExchange(f)

\* a flow for tiktok with a code has failed and has been propagated
C3_Witness ==
  \E f \in DOMAIN flows :
    /\ flows[f].platform = "tiktok"
    /\ flows[f].code = "abc"
    /\ flows[f].error = Null
    /\ flows[f].pc = "failedDone"

\* C4: connectAccount is called at most once in a flow and only with the
\* flow's platform; once the token exchange of the flow has succeeded (and,
\* for twitter, once the upsert has returned without error) it has been
\* called exactly once.
C4_ConnectCalledOnce ==
  \A f \in DOMAIN flows :
    /\ \A i \in ConnectsOf(f) : connects[i].platform = flows[f].platform
    /\ Cardinality(ConnectsOf(f)) <= 1
    /\ (/\ flows[f].exchanged
        /\ flows[f].platform # "twitter" \/ flows[f].persisted)
         => Cardinality(ConnectsOf(f)) = 1

\* a twitter flow has exchanged, persisted and succeeded
C4_Witness ==
  \E f \in DOMAIN flows :
    /\ flows[f].platform = "twitter"
    /\ flows[f].exchanged
    /\ flows[f].persisted
    /\ flows[f].pc = "succeeded"
    /\ ConnectsOf(f) # {}

\* C5: a flow that has seen a response that is not ok is Failed (or, for
\* twitter, is still reading the error body), has called neither upsert nor
\* connectAccount, and the message it has captured, and the one it has
\* posted, is a non-empty string.
C5_NotOkResponseFails ==
  \A f \in DOMAIN flows :
    flows[f].response = "notOk" =>
      /\ Failed(f) \/ (flows[f].platform = "twitter" /\ flows[f].pc = "awaitErrorJson")
      /\ UpsertsOf(f) = {}
      /\ ConnectsOf(f) = {}
      /\ Failed(f) => (Truthy(flows[f].message) /\ error = flows[f].message)
      /\ \A i \in DOMAIN effects :
           (effects[i].flow = f /\ effects[i].op = "postMessage") =>
             (effects[i].type = "SOCIAL_AUTH_ERROR" /\ Truthy(effects[i].data))

\* a twitter flow whose error body had no error_description has failed and
\* has posted its message to the opener
C5_Witness ==
  \E f \in DOMAIN flows :
    /\ flows[f].response = "notOk"
    /\ flows[f].platform = "twitter"
    /\ flows[f].message = "Failed to get Twitter access token"
    /\ flows[f].pc = "failedDone"
    /\ opener

C7_FullPageNavigatesHome ==
  ~opener =>
    \A f \in DOMAIN flows :
      LET es == EffectsOf(f)
      IN /\ \A i \in DOMAIN es : es[i].op = "navigate" /\ es[i].target = "/"
         /\ Len(es) <= 1
         /\ "Successfully connected!" \in StatusValuesOf(f) => Len(es) = 1
         /\ flows[f].pc = "succeeded" <=> "Successfully connected!" \in StatusValuesOf(f)
         /\ flows[f].pc \notin {"succeeded", "failedDone"} => es = << >>
         /\ flows[f].pc = "failedDone" =>
              (Len(es) = 1 /\ es[1].at >= flows[f].failedAt + FailureDelay)

\* in a full page, a flow has failed, waited, and navigated
C7_Witness ==
  /\ ~opener
  /\ \E f \in DOMAIN flows :
       /\ flows[f].pc = "failedDone"
       /\ Len(EffectsOf(f)) = 1

\* C8: the expires_at of every upsert, read back as a time, is the clock
\* value read when the record was built plus expires_in * 1000 ms; the
\* record was built between the start of the flow and the call of upsert.
C8_ExpiresAtFromExpiresIn ==
  \A i \in DOMAIN upserts :
    LET u  == upserts[i]
        fl == flows[u.flow]
    IN /\ DateParse(u.record.expires_at) = fl.builtAt + fl.expiresIn * 1000
       /\ fl.startedAt <= fl.builtAt
       /\ fl.builtAt <= u.at
       /\ DateParse(u.record.expires_at) - (fl.startedAt + fl.expiresIn * 1000)
            \in 0 .. (u.at - fl.startedAt)

\* an upsert of a response with expires_in = 3600 that took time to arrive
C8_Witness ==
  \E i \in DOMAIN upserts :
    /\ flows[upserts[i].flow].expiresIn = 3600
    /\ flows[upserts[i].flow].builtAt > flows[upserts[i].flow].startedAt

\* C9 as stated: upsert is called only after the user has been resolved and
\* never with an absent user_id; a twitter flow that found no user is Failed
\* and has called neither upsert nor connectAccount.
C9_AsStated ==
  \A f \in DOMAIN flows :
    /\ \A i \in UpsertsOf(f) :
         flows[f].userResolved /\ upserts[i].record.user_id # Undefined
    /\ (flows[f].userResolved /\ flows[f].userId = Undefined) =>
         (Failed(f) /\ UpsertsOf(f) = {} /\ ConnectsOf(f) = {})

\* C10 as stated: a flow whose adapter needs an environment variable that
\* is not set is Failed and has sent no request; no request carries the
\* text of an absent credential.
C10_AsStated ==
  /\ \A f \in DOMAIN flows :
       (flows[f].adapter # Null /\ \E v \in RequiredEnv(flows[f].adapter) : env[v] = Undefined) =>
         (Failed(f) /\ FetchesOf(f) = {})
  /\ \A i \in DOMAIN fetches :
       \A k \in DOMAIN fetches[i].req.body :
         fetches[i].req.body[k][1] \in {"client_id", "client_secret"} =>
           fetches[i].req.body[k][2] # "undefined"

\* flow f has met one of the failures of the flow: a parameter check, an
\* unsupported platform, a response that is not ok, or any Error thrown
FailureSeen(f) ==
  \/ Truthy(flows[f].error)
  \/ ~Truthy(flows[f].platform)
  \/ ~Truthy(flows[f].code)
  \/ flows[f].platform \notin SupportedPlatforms
  \/ flows[f].response = "notOk" /\ flows[f].pc # "awaitErrorJson"
  \/ flows[f].message # Null

\* the failure of flow f has reached the opener or has become a navigation
Propagated(f) ==
  /\ flows[f].pc = "failedDone"
  /\ LET es == EffectsOf(f)
     IN IF opener
          THEN /\ Len(es) = 2
               /\ es[1].op = "postMessage" /\ es[1].type = "SOCIAL_AUTH_ERROR"
               /\ es[1].data = flows[f].message
               /\ es[2].op = "close"
          ELSE /\ Len(es) = 1
               /\ es[1].op = "navigate" /\ es[1].target = "/"

CallsOf(f) == <<FetchesOf(f), UpsertsOf(f), ConnectsOf(f)>>

\* C12: a flow invokes at most one adapter, the one of its platform, and
\* makes at most one token request, one upsert and one connectAccount call;
\* each call is made only after the call before it has returned (request,
\* then user resolution, then upsert, then connectAccount); and a flow that
\* is Failed stays Failed and makes no further call.
C12_OneAdapterSequentialNoRetry ==
  /\ [](\A f \in DOMAIN flows :
          /\ flows[f].adapter \in
               {Null,
                CASE flows[f].platform = "twitter"   -> "handleTwitterAuth"
                  [] flows[f].platform = "linkedin"  -> "handleLinkedInAuth"
                  [] flows[f].platform = "facebook"  -> "handleFacebookAuth"
                  [] flows[f].platform = "instagram" -> "handleInstagramAuth"
                  [] OTHER -> Null}
          /\ Cardinality(FetchesOf(f)) <= 1
          /\ Cardinality(UpsertsOf(f)) <= 1
          /\ Cardinality(ConnectsOf(f)) <= 1
          /\ FetchesOf(f) # {} => flows[f].adapter # Null
          /\ flows[f].response # "none" => FetchesOf(f) # {}
          /\ flows[f].exchanged => flows[f].response = "ok"
          /\ flows[f].userResolved => flows[f].exchanged
          /\ UpsertsOf(f) # {} <=> flows[f].userResolved
          /\ flows[f].persisted => UpsertsOf(f) # {}
          /\ ConnectsOf(f) # {} =>
               /\ flows[f].exchanged
               /\ flows[f].platform = "twitter" => flows[f].persisted
          /\ flows[f].pc = "awaitFetch" => (UpsertsOf(f) = {} /\ ConnectsOf(f) = {})
          /\ flows[f].pc \in {"awaitGetUser", "awaitUpsert"} => ConnectsOf(f) = {})
  /\ [][\A f \in DOMAIN flows :
          Failed(f) => (Failed(f)' /\ CallsOf(f)' = CallsOf(f))]_vars

\* a twitter flow has made its three calls, failed in the last one, and has
\* been propagated
C12_Witness ==
  \E f \in DOMAIN flows :
    /\ flows[f].platform = "twitter"
    /\ Cardinality(FetchesOf(f)) = 1
    /\ Cardinality(UpsertsOf(f)) = 1
    /\ Cardinality(ConnectsOf(f)) = 1
    /\ flows[f].pc = "failedDone"

\* C13: a twitter flow whose upsert reported a storage error is Failed with
\* 'Failed to store Twitter credentials' and has not called connectAccount;
\* a twitter flow that has called connectAccount has had an upsert return
\* without a storage error.
C13_StorageErrorFails ==
  \A f \in DOMAIN flows :
    /\ flows[f].upsertResult = "error" =>
         /\ Failed(f)
         /\ flows[f].message = "Failed to store Twitter credentials"
         /\ ConnectsOf(f) = {}
    /\ (flows[f].platform = "twitter" /\ ConnectsOf(f) # {}) =>
         flows[f].upsertResult = "ok"

\* a twitter flow whose upsert failed has been propagated
C13_Witness ==
  \E f \in DOMAIN flows :
    /\ flows[f].platform = "twitter"
    /\ flows[f].upsertResult = "error"
    /\ flows[f].pc = "failedDone"

\* every flow of the page is for a platform other than twitter
NoTwitterFlow == \A f \in DOMAIN flows : flows[f].platform # "twitter"

\* C14: a flow for linkedin, facebook or instagram never calls upsert, and
\* no step of a page without a twitter flow changes the table; a twitter
\* flow that has succeeded has called upsert exactly once, with platform
\* 'twitter'.
C14_OnlyTwitterPersists ==
  /\ [](\A f \in DOMAIN flows :
          /\ flows[f].platform # "twitter" => UpsertsOf(f) = {}
          /\ (flows[f].platform = "twitter" /\ flows[f].pc = "succeeded") =>
               /\ Cardinality(UpsertsOf(f)) = 1
               /\ \A i \in UpsertsOf(f) :
                    /\ upserts[i].record.platform = "twitter"
                    /\ upserts[i].record \in store)
  /\ [][NoTwitterFlow' => store' = store]_vars

\* a linkedin flow has succeeded beside a table that has a row, and a
\* twitter flow is not needed for that
C14_Witness ==
  \E f \in DOMAIN flows :
    /\ flows[f].platform = "linkedin"
    /\ flows[f].pc = "succeeded"
    /\ store = {OldRow}

\* C17 as stated: a twitter flow that is Failed has had no upsert return
\* without a storage error.
C17_AsStated ==
  \A f \in DOMAIN flows :
    (flows[f].platform = "twitter" /\ Failed(f)) => ~flows[f].persisted

\* C17 amended: a twitter flow that is Failed and has not called
\* connectAccount has had no upsert return without a storage error, and the
\* table changes only in the step in which a flow goes on to call
\* connectAccount.
C17_FailedBeforeConnectLeavesStore ==
  /\ [](\A f \in DOMAIN flows :
          (flows[f].platform = "twitter" /\ Failed(f) /\ ConnectsOf(f) = {}) =>
            ~flows[f].persisted)
  /\ [][store' # store =>
          \E f \in DOMAIN flows :
            /\ flows[f].pc = "awaitUpsert"
            /\ flows'[f].pc = "awaitConnect"
            /\ ConnectsOf(f)' # {}]_vars

\* a twitter flow whose upsert reported an error has failed beside a table
\* that has a row
C17_Witness ==
  \E f \in DOMAIN flows :
    /\ flows[f].platform = "twitter"
    /\ flows[f].upsertResult = "error"
    /\ Failed(f)
    /\ store = {OldRow}

\* the values flow f has passed to setStatus, in order
StatusSeqOf(f) ==
  LET calls == SelectSeq(statusCalls, LAMBDA c : EffectIs(c, f))
  IN [i \in DOMAIN calls |-> calls[i].value]

ConnectingText(f) == "Connecting " \o flows[f].platform \o " account..."

\* C15: the status is 'Verifying authentication...' until the flow starts;
\* a flow sets 'Connecting <platform> account...' at most once, first, and
\* only with a non-empty platform and code and no error, and the status
\* holds that text only while a flow for a supported platform is in its
\* adapter; a flow sets 'Successfully connected!' only after that text,
\* once its adapter has made its request, has had an ok response and has
\* returned from connectAccount.
C15_StatusStateMachine ==
  /\ flows = << >> => status = "Verifying authentication..."
  /\ \A f \in DOMAIN flows :
       LET seq == StatusSeqOf(f)
           exchanging == {"awaitFetch", "awaitErrorJson", "awaitJson", "awaitGetUser",
                          "awaitUpsert", "awaitConnect"}
       IN /\ \/ seq = <<"Authentication failed">>
             \/ /\ Truthy(flows[f].platform)
                /\ Truthy(flows[f].code)
                /\ ~Truthy(flows[f].error)
                /\ seq \in {<<ConnectingText(f)>>,
                            <<ConnectingText(f), "Successfully connected!">>,
                            <<ConnectingText(f), "Authentication failed">>}
          /\ status = seq[Len(seq)]
          /\ Len(seq) = 1 /\ seq[1] # "Authentication failed" <=> flows[f].pc \in exchanging
          /\ flows[f].pc \in exchanging =>
               (flows[f].platform \in SupportedPlatforms /\ flows[f].adapter # Null)
          /\ "Successfully connected!" \in StatusValuesOf(f) <=> flows[f].pc = "succeeded"
          /\ flows[f].pc = "succeeded" =>
               /\ flows[f].platform \in SupportedPlatforms
               /\ FetchesOf(f) # {}
               /\ flows[f].response = "ok"
               /\ flows[f].exchanged
               /\ ConnectsOf(f) # {}
               /\ flows[f].message = Null
          /\ "Authentication failed" \in StatusValuesOf(f) <=> Failed(f)

\* an instagram flow has passed from 'Connecting instagram account...' to
\* 'Successfully connected!'
C15_Witness ==
  \E f \in DOMAIN flows :
    /\ StatusSeqOf(f) = <<"Connecting instagram account...", "Successfully connected!">>
    /\ flows[f].pc = "succeeded"

\* flow f has reported success: it has set the success status or sent a
\* SOCIAL_AUTH_SUCCESS message
ReportedSuccess(f) ==
  \/ "Successfully connected!" \in StatusValuesOf(f)
  \/ \E i \in DOMAIN effects : effects[i].flow = f /\ effects[i].type = "SOCIAL_AUTH_SUCCESS"

\* flow f has reported failure: its catch block has run or it has sent a
\* SOCIAL_AUTH_ERROR message
ReportedFailure(f) ==
  \/ Failed(f)
  \/ "Authentication failed" \in StatusValuesOf(f)
  \/ \E i \in DOMAIN effects : effects[i].flow = f /\ effects[i].type = "SOCIAL_AUTH_ERROR"

\* C16: no flow reports both success and failure, also when postMessage,
\* close or navigate raises after the success status was set.
C16_AsStated ==
  \A f \in DOMAIN flows : ~(ReportedSuccess(f) /\ ReportedFailure(f))

\* C18: in every reachable state, also after a change of the parameters
\* has started the flow again, the error is set exactly when the status is
\* 'Authentication failed', and a failure timer that fires is the timer of
\* the most recently started flow.
C18_AsStated ==
  /\ [](error # Null <=> status = "Authentication failed")
  /\ [][\A f \in DOMAIN flows :
          (flows[f].pc = "failed" /\ flows'[f].pc = "failedDone") => f = Len(flows)]_vars

====
